---- MODULE Spec2Model ----
(***************************************************************************)
(* Model of the glTF importer (src/src/import.rs): URI scheme resolution,  *)
(* buffer materialization (blob take-once slot, 4-byte padding, length     *)
(* validation), image materialization (format determination, buffer-view   *)
(* slicing) and the import orchestration.                                  *)
(*                                                                         *)
(* Text is a sequence of one-character strings, bytes are sequences of     *)
(* numbers in 0..255.  Option<T> is a record [some, val]; Result<T> is a   *)
(* record [kind, val, err] where kind is "Ok", "Err" or "Panic".           *)
(***************************************************************************)
EXTENDS Integers, Sequences, FiniteSets, TLC

VARIABLES
    entry,      \* the function under execution: "read", "import_buffers", "import_images", "import"
    bufDecls,   \* document.buffers(): sequence of [source, length]
    imgDecls,   \* document.images(): sequence of image sources
    base,       \* Option<&Path>
    guess,      \* whether the guess_mime_type feature is compiled in
    uriArg,     \* the uri argument of a direct Scheme::read call
    blobArg,    \* the blob the caller passes (Gltf.blob)
    blob,       \* the take-once slot: Option<Vec<u8>>
    buffers,    \* the Vec<buffer::Data> under construction / passed as buffer_data
    images,     \* the Vec<image::Data> under construction
    bi,         \* position of the buffer loop (index of the next declaration, from 1)
    ii,         \* position of the image loop
    pc,         \* "read", "buffers", "images", "done"
    result,     \* the value returned by the entry function
    log         \* history: one record per Scheme::read call or materialized declaration

vars == <<entry, bufDecls, imgDecls, base, guess, uriArg, blobArg, blob, buffers, images,
          bi, ii, pc, result, log>>

----------------------------------------------------------------------------
(* Option and Result values *)

None == [some |-> FALSE, val |-> <<>>]
Some(x) == [some |-> TRUE, val |-> x]

NoError == [tag |-> "none", buffer |-> 0, expected |-> 0, actual |-> 0]
Error(t) == [tag |-> t, buffer |-> 0, expected |-> 0, actual |-> 0]
BufferLength(b, e, a) == [tag |-> "BufferLength", buffer |-> b, expected |-> e, actual |-> a]

Ok(v) == [kind |-> "Ok", val |-> v, err |-> NoError]
Err(e) == [kind |-> "Err", val |-> <<>>, err |-> e]
Panic == [kind |-> "Panic", val |-> <<>>, err |-> NoError]

----------------------------------------------------------------------------
(* Text helpers: str::contains, str::strip_prefix, str::split, str::rsplit *)

StartsWith(s, p) == Len(s) >= Len(p) /\ SubSeq(s, 1, Len(p)) = p

StripPrefix(s, p) == SubSeq(s, Len(p) + 1, Len(s))

\* Index of the first occurrence of pat in s, 0 when there is none.
Find(s, pat) ==
    LET hits == {k \in 1..(Len(s) - Len(pat) + 1) : SubSeq(s, k, k + Len(pat) - 1) = pat}
    IN  IF hits = {} THEN 0 ELSE CHOOSE k \in hits : \A j \in hits : k <= j

Contains(s, pat) == Find(s, pat) # 0

\* The pieces str::split(pat) yields, in order (always at least one).
RECURSIVE Split(_, _)
Split(s, pat) ==
    LET k == Find(s, pat)
    IN  IF k = 0 THEN <<s>>
        ELSE <<SubSeq(s, 1, k - 1)>> \o Split(SubSeq(s, k + Len(pat), Len(s)), pat)

\* uri.rsplit('.').next(): the text after the last '.', the whole text without one.
RSplitFirst(s) ==
    LET dots == {k \in 1..Len(s) : s[k] = "."}
    IN  IF dots = {} THEN s
        ELSE SubSeq(s, (CHOOSE k \in dots : \A j \in dots : j <= k) + 1, Len(s))

----------------------------------------------------------------------------
(* base64::decode, standard alphabet with '=' padding *)

B64Alphabet ==
    <<"A","B","C","D","E","F","G","H","I","J","K","L","M","N","O","P",
      "Q","R","S","T","U","V","W","X","Y","Z","a","b","c","d","e","f",
      "g","h","i","j","k","l","m","n","o","p","q","r","s","t","u","v",
      "w","x","y","z","0","1","2","3","4","5","6","7","8","9","+","/">>

IsB64Char(c) == \E i \in DOMAIN B64Alphabet : B64Alphabet[i] = c

B64Value(c) == (CHOOSE i \in DOMAIN B64Alphabet : B64Alphabet[i] = c) - 1

\* The bytes of one group of four characters; q is the number of '=' at its end.
B64Group(g, q) ==
    LET a == B64Value(g[1])
        b == B64Value(g[2])
        c == IF q >= 2 THEN 0 ELSE B64Value(g[3])
        d == IF q >= 1 THEN 0 ELSE B64Value(g[4])
        v == a * 262144 + b * 4096 + c * 64 + d
        all == <<v \div 65536, (v \div 256) % 256, v % 256>>
    IN  SubSeq(all, 1, 3 - q)

RECURSIVE B64Groups(_, _)
B64Groups(s, q) ==
    IF Len(s) = 0 THEN <<>>
    ELSE IF Len(s) = 4 THEN B64Group(s, q)
    ELSE B64Group(SubSeq(s, 1, 4), 0) \o B64Groups(SubSeq(s, 5, Len(s)), q)

Base64Decode(s) ==
    LET n == Len(s)
        q == IF n >= 2 /\ s[n] = "=" /\ s[n - 1] = "=" THEN 2
             ELSE IF n >= 1 /\ s[n] = "=" THEN 1 ELSE 0
    IN  IF n % 4 # 0 \/ \E k \in 1..(n - q) : ~IsB64Char(s[k])
        THEN Err(Error("Base64"))
        ELSE Ok(B64Groups(s, q))

----------------------------------------------------------------------------
(* urlencoding::decode: %XX escapes become bytes, the bytes must be UTF-8 *)

HexDigits == <<"0","1","2","3","4","5","6","7","8","9","A","B","C","D","E","F">>
HexLower == <<"0","1","2","3","4","5","6","7","8","9","a","b","c","d","e","f">>

IsHex(c) == \E i \in DOMAIN HexDigits : HexDigits[i] = c \/ HexLower[i] = c

HexValue(c) == (CHOOSE i \in DOMAIN HexDigits : HexDigits[i] = c \/ HexLower[i] = c) - 1

\* The printable ASCII characters, code 32 first; the double quote, the
\* backslash and the backtick are written dq, bs and bt.
Ascii ==
    <<" ","!","dq","#","$","%","&","'","(",")","*","+",",","-",".","/",
      "0","1","2","3","4","5","6","7","8","9",":",";","<","=",">","?",
      "@","A","B","C","D","E","F","G","H","I","J","K","L","M","N","O",
      "P","Q","R","S","T","U","V","W","X","Y","Z","[","bs","]","^","_",
      "bt","a","b","c","d","e","f","g","h","i","j","k","l","m","n","o",
      "p","q","r","s","t","u","v","w","x","y","z","{","|","}","~">>

\* Bytes that occur in no UTF-8 text.
NeverUtf8(b) == b \in {192, 193} \/ b >= 245

CharOfByte(b) ==
    IF b >= 32 /\ b <= 126 THEN Ascii[b - 31]
    ELSE IF b < 128 THEN "ctl" ELSE "hi"

\* The escapes of s, as the bytes they stand for (0 when s has none).
RECURSIVE EscapedBytes(_)
EscapedBytes(s) ==
    IF Len(s) = 0 THEN <<>>
    ELSE IF s[1] = "%" /\ Len(s) >= 3 /\ IsHex(s[2]) /\ IsHex(s[3])
         THEN <<HexValue(s[2]) * 16 + HexValue(s[3])>> \o EscapedBytes(SubSeq(s, 4, Len(s)))
         ELSE EscapedBytes(SubSeq(s, 2, Len(s)))

RECURSIVE PercentText(_)
PercentText(s) ==
    IF Len(s) = 0 THEN <<>>
    ELSE IF s[1] = "%" /\ Len(s) >= 3 /\ IsHex(s[2]) /\ IsHex(s[3])
         THEN <<CharOfByte(HexValue(s[2]) * 16 + HexValue(s[3]))>> \o PercentText(SubSeq(s, 4, Len(s)))
         ELSE <<s[1]>> \o PercentText(SubSeq(s, 2, Len(s)))

\* Ok(text), or Err when the decoded bytes are not UTF-8.
PercentDecode(s) ==
    IF \E b \in {EscapedBytes(s)} : \E k \in DOMAIN b : NeverUtf8(b[k])
    THEN Err(Error("FromUtf8"))
    ELSE Ok(PercentText(s))

----------------------------------------------------------------------------
(* Scheme::parse and Scheme::read *)

DataPrefix == <<"d","a","t","a",":">>
Base64Marker == <<";","b","a","s","e","6","4",",">>
FileSlashPrefix == <<"f","i","l","e",":","/","/">>
FilePrefix == <<"f","i","l","e",":">>

Scheme(s, m, a) == [scheme |-> s, mime |-> m, arg |-> a]

\* The match on (it.next(), it.next()), it the pieces of rest.split(";base64,").
MatchPieces(it) ==
    IF Len(it) >= 2 THEN Scheme("Data", Some(it[1]), it[2])
    ELSE Scheme("Data", None, it[1])

ParseData(rest) == MatchPieces(Split(rest, Base64Marker))

\* Scheme::Relative(urlencoding::decode(uri).unwrap()), d the value of decode.
Unwrapped(d) ==
    IF d.kind = "Ok" THEN Scheme("Relative", None, d.val)
    ELSE Scheme("Panic", None, <<>>)

Parse(uri) ==
    IF Contains(uri, <<":">>)
    THEN IF StartsWith(uri, DataPrefix) THEN ParseData(StripPrefix(uri, DataPrefix))
         ELSE IF StartsWith(uri, FileSlashPrefix)
              THEN Scheme("File", None, StripPrefix(uri, FileSlashPrefix))
         ELSE IF StartsWith(uri, FilePrefix)
              THEN Scheme("File", None, StripPrefix(uri, FilePrefix))
         ELSE Scheme("Unsupported", None, <<>>)
    ELSE Unwrapped(PercentDecode(uri))

\* A call of the fetcher: its arguments.
FetchCall(b, path) == [base |-> b, path |-> path]

\* Scheme::read with the arm of Relative lacking its guard `if base.is_some()`.
ReadSchemeUnguarded(s, b, fr) ==
    CASE s.scheme = "Panic" -> [res |-> Panic, calls |-> <<>>]
      [] s.scheme = "Data" -> [res |-> Base64Decode(s.arg), calls |-> <<>>]
      [] s.scheme = "File" -> [res |-> fr, calls |-> <<FetchCall(None, s.arg)>>]
      [] s.scheme = "Relative" -> [res |-> fr, calls |-> <<FetchCall(b, s.arg)>>]
      [] OTHER -> [res |-> Err(Error("UnsupportedScheme")), calls |-> <<>>]

\* The match of Scheme::read on the parsed scheme s, where fr is what the
\* fetcher returns if it is called.  res is the value returned, calls the
\* fetcher calls made.
ReadScheme(s, b, fr) ==
    CASE s.scheme = "Panic" -> [res |-> Panic, calls |-> <<>>]
      [] s.scheme = "Data" -> [res |-> Base64Decode(s.arg), calls |-> <<>>]
      [] s.scheme = "File" -> [res |-> fr, calls |-> <<FetchCall(None, s.arg)>>]
      [] s.scheme = "Relative" /\ b.some -> [res |-> fr, calls |-> <<FetchCall(b, s.arg)>>]
      [] s.scheme = "Unsupported" -> [res |-> Err(Error("UnsupportedScheme")), calls |-> <<>>]
      [] OTHER -> [res |-> Err(Error("ExternalReferenceInSliceImport")), calls |-> <<>>]

\* Scheme::read(base, uri, fetcher)
Read(b, uri, fr) == ReadScheme(Parse(uri), b, fr)

----------------------------------------------------------------------------
(* buffer::Data::from_source_and_blob and the body of import_buffers' loop *)

Align == 4

\* A padding loop that never runs.
PadNothing(data) == data

\* while data.len() % 4 != 0 { data.push(0); }
RECURSIVE Pad(_)
Pad(data) == IF Len(data) % Align # 0 THEN Pad(Append(data, 0)) ELSE data

Bin == [kind |-> "Bin", uri |-> <<>>]
Uri(u) == [kind |-> "Uri", uri |-> u]

\* A read of the slot that leaves the blob in it (blob.clone()).
TakeKeeping(slot) == [taken |-> slot, slot |-> slot]

\* blob.take(): the value taken and what the slot holds afterwards.
Take(slot) == [taken |-> slot, slot |-> None]

\* The arm Source::Uri: the slot is left alone.
FromUriArm(r, slot) == [res |-> r.res, slot |-> slot, calls |-> r.calls]

\* The arm Source::Bin: blob.take().ok_or(Error::MissingBlob)
FromBinArm(t) ==
    [res |-> IF t.taken.some THEN Ok(t.taken.val) ELSE Err(Error("MissingBlob")),
     slot |-> t.slot, calls |-> <<>>]

\* The match on the source: res is the bytes before padding (or the failure),
\* slot the blob slot afterwards, calls the fetcher calls made.
Resolve(source, slot, b, fr) ==
    IF source.kind = "Uri" THEN FromUriArm(Read(b, source.uri, fr), slot)
    ELSE FromBinArm(Take(slot))

\* The `?`, the padding loop and Ok(buffer::Data(data)), r the value of the match.
Padded(r) ==
    [res |-> IF r.res.kind = "Ok" THEN Ok(Pad(r.res.val)) ELSE r.res,
     raw |-> r.res, slot |-> r.slot, calls |-> r.calls]

FromSourceAndBlob(source, slot, b, fr) == Padded(Resolve(source, slot, b, fr))

\* if data.len() < buffer.length()
TooShort(data, length) == Len(data) < length

\* The `?` and the length check of the loop body, m the value of
\* from_source_and_blob for declaration i (from 1); buffer.index() is i - 1.
Validated(m, decl, i) ==
    [out |-> IF m.res.kind = "Ok" /\ TooShort(m.res.val, decl.length)
             THEN Err(BufferLength(i - 1, decl.length, Len(m.res.val)))
             ELSE m.res,
     data |-> m.res, raw |-> m.raw, slot |-> m.slot, calls |-> m.calls]

\* One iteration of the loop of import_buffers.
BufferIteration(decl, i, slot, b, fr) ==
    Validated(FromSourceAndBlob(decl.source, slot, b, fr), decl, i)

----------------------------------------------------------------------------
(* image::Data::from_source *)

ImagePng == <<"i","m","a","g","e","/","p","n","g">>
ImageJpeg == <<"i","m","a","g","e","/","j","p","e","g">>

PngMagic == <<137, 80, 78, 71, 13, 10, 26, 10>>
JpegMagic == <<255, 216, 255>>

\* The guess_format closure: image_crate::guess_format when the feature
\* guess_mime_type is on (g), None otherwise.
GuessFormat(g, encoded) ==
    IF g /\ StartsWith(encoded, PngMagic) THEN Some("Png")
    ELSE IF g /\ StartsWith(encoded, JpegMagic) THEN Some("Jpeg")
    ELSE None

\* The arms "image/png" => Png, "image/jpeg" => Jpeg of the matches on a MIME type.
MimeFormat(m) ==
    IF m = ImagePng THEN Some("Png")
    ELSE IF m = ImageJpeg THEN Some("Jpeg")
    ELSE None

\* The arms Some("png") => Png, Some("jpg") | Some("jpeg") => Jpeg.
ExtensionFormat(uri) ==
    LET e == RSplitFirst(uri)
    IN  IF e = <<"p","n","g">> THEN Some("Png")
        ELSE IF e = <<"j","p","g">> \/ e = <<"j","p","e","g">> THEN Some("Jpeg")
        ELSE None

\* match annoying_case / match mime_type of the View arm: the tag, else the guess.
TagOrGuess(m, g, encoded) ==
    IF MimeFormat(m).some THEN MimeFormat(m) ELSE GuessFormat(g, encoded)

\* match mime_type of the fetched arm.
FetchedFormat(mime, uri, g, encoded) ==
    IF mime.some
    THEN TagOrGuess(mime.val, g, encoded)
    ELSE IF ExtensionFormat(uri).some THEN ExtensionFormat(uri)
         ELSE GuessFormat(g, encoded)

\* image_crate::load_from_memory_with_format followed by image::Data::new:
\* the decoder accepts the bytes that carry the signature of the format.
LoadWithFormat(encoded, format) ==
    LET magic == IF format = "Png" THEN PngMagic ELSE JpegMagic
    IN  IF StartsWith(encoded, magic)
        THEN Ok([format |-> format, encoded |-> encoded])
        ELSE Err(Error("Image"))

\* The end of every arm: return UnsupportedImageEncoding without a format,
\* decode with it otherwise.
Decoded(encoded, format, calls, arm) ==
    [res |-> IF format.some THEN LoadWithFormat(encoded, format.val)
             ELSE Err(Error("UnsupportedImageEncoding")),
     format |-> format, encoded |-> Some(encoded), calls |-> calls, arm |-> arm]

Failed(res, calls, arm) ==
    [res |-> res, format |-> None, encoded |-> None, calls |-> calls, arm |-> arm]

ImageUri(u, m) == [kind |-> "Uri", uri |-> u, mime |-> m, buffer |-> 0, offset |-> 0, length |-> 0]
ImageView(bf, off, len, m) ==
    [kind |-> "View", uri |-> <<>>, mime |-> Some(m), buffer |-> bf, offset |-> off, length |-> len]

\* The View arm: indexing buffer_data and slicing the payload panic out of range.
ViewInRange(source, bufferData) ==
    /\ source.buffer < Len(bufferData)
    /\ source.offset + source.length <= Len(bufferData[source.buffer + 1])

\* &parent_buffer_data[begin..end]
Slice(parent, begin, end) == SubSeq(parent, begin + 1, end)

ViewEncoded(encoded, source, g) ==
    Decoded(encoded, TagOrGuess(source.mime.val, g, encoded), <<>>, "view")

FromView(source, bufferData, g) ==
    IF ~ViewInRange(source, bufferData) THEN Failed(Panic, <<>>, "view")
    ELSE ViewEncoded(Slice(bufferData[source.buffer + 1], source.offset,
                           source.offset + source.length), source, g)

\* The arm Scheme::Data(Some(annoying_case), base64), d the value of base64::decode.
InlineArm(d, annoying, g) ==
    IF d.kind # "Ok" THEN Failed(d, <<>>, "inline")
    ELSE Decoded(d.val, TagOrGuess(annoying, g, d.val), <<>>, "inline")

\* The arm `_`, r the value of Scheme::read.
FetchedArm(r, source, g) ==
    IF r.res.kind # "Ok" THEN Failed(r.res, r.calls, "fetched")
    ELSE Decoded(r.res.val, FetchedFormat(source.mime, source.uri, g, r.res.val),
                 r.calls, "fetched")

\* match Scheme::parse(uri), s the parsed scheme.
MatchScheme(s, source, b, g, fr) ==
    IF s.scheme = "Panic" THEN Failed(Panic, <<>>, "parse")
    ELSE IF s.scheme = "Data" /\ s.mime.some
    THEN InlineArm(Base64Decode(s.arg), s.mime.val, g)
    ELSE IF s.scheme = "Unsupported"
    THEN Failed(Err(Error("UnsupportedScheme")), <<>>, "unsupported")
    ELSE FetchedArm(Read(b, source.uri, fr), source, g)

FromUri(source, b, g, fr) == MatchScheme(Parse(source.uri), source, b, g, fr)

ImageFromSource(source, bufferData, b, g, fr) ==
    IF source.kind = "Uri" THEN FromUri(source, b, g, fr)
    ELSE FromView(source, bufferData, g)

----------------------------------------------------------------------------
(* Inputs *)

MaxBuffers == 2
MaxImages == 2
MaxDeclLen == 5

SeqsUpTo(S, n) == UNION {[1..k -> S] : k \in 0..n}

Bases == {None, Some(<<"d","i","r">>)}

PngFile == <<137, 80, 78, 71, 13, 10, 26, 10>>
JpegFile == <<255, 216, 255, 224, 0>>
RawFile == <<1, 2, 3>>

\* What a fetcher may return: the stubs of the tests, a filesystem read, or
\* empty_fetcher's error.
FetchOutcomes ==
    {Ok(PngFile), Ok(JpegFile), Ok(RawFile),
     Err(Error("Io")), Err(Error("ExternalReferenceInSliceImport"))}

RelativeUri == <<"a","%","2","0","b",".","b","i","n">>
UndecodableUri == <<"%","F","F">>
FileUri == <<"f","i","l","e",":","/","b",".","b","i","n">>
FileSlashUri == <<"f","i","l","e",":","/","/","/","b",".","b","i","n">>
HttpUri == <<"h","t","t","p",":","/","/","x","/","a",".","b","i","n">>

OctetStream ==
    <<"a","p","p","l","i","c","a","t","i","o","n","/","o","c","t","e","t","-","s","t","r","e","a","m">>
ImageWebp == <<"i","m","a","g","e","/","w","e","b","p">>

\* base64 texts: of 1 2 3, of 1 2 3 4 5, of PngFile, of 255 216 255, of 65, and a malformed one
B64Raw == <<"A","Q","I","D">>
B64Raw5 == <<"A","Q","I","D","B","A","U","=">>
B64Png == <<"i","V","B","O","R","w","0","K","G","g","o","=">>
B64Jpeg == <<"/","9","j","/">>
B64One == <<"Q","Q","=","=">>
B64Bad == <<"!","!">>

DataUri(mime, payload) == DataPrefix \o mime \o Base64Marker \o payload

----------------------------------------------------------------------------
(* The state machine *)

NoResult == [kind |-> "None", err |-> NoError, bytes |-> <<>>, buffers |-> <<>>, images |-> <<>>]
Returned(kind, err, bytes, bufs, imgs) ==
    [kind |-> kind, err |-> err, bytes |-> bytes, buffers |-> bufs, images |-> imgs]

InitCommon ==
    /\ bi = 1
    /\ ii = 1
    /\ images = <<>>
    /\ result = NoResult
    /\ log = <<>>

\* A direct call Scheme::read(base, uri, fetcher).
ReadUris ==
    {RelativeUri, UndecodableUri, FileUri, FileSlashUri, HttpUri, DataPrefix}
    \cup {DataPrefix \o m \o p :
            m \in {<<>>, ImagePng, OctetStream},
            p \in {B64Raw, B64Raw5, B64Png, B64Jpeg, B64One, B64Bad, <<>>}}
    \cup {DataUri(m, p) :
            m \in {<<>>, ImagePng, OctetStream},
            p \in {B64Raw, B64Raw5, B64Png, B64Jpeg, B64One, B64Bad, <<>>}}
    \cup {DataUri(m, p) \o Base64Marker \o q :
            m \in {<<>>, ImagePng, OctetStream},
            p \in {B64Raw, B64One, B64Bad, <<>>},
            q \in {B64Raw, B64Jpeg, <<>>}}

InitRead ==
    /\ InitCommon
    /\ entry = "read"
    /\ pc = "read"
    /\ uriArg \in ReadUris
    /\ base \in Bases
    /\ guess = FALSE
    /\ bufDecls = <<>>
    /\ imgDecls = <<>>
    /\ blobArg = None
    /\ blob = None
    /\ buffers = <<>>

ReadStep ==
    /\ pc = "read"
    /\ \E fr \in FetchOutcomes :
         \E r \in {Read(base, uriArg, fr)} :
             /\ result' = Returned(r.res.kind, r.res.err, r.res.val, <<>>, <<>>)
             /\ log' = Append(log, [op |-> "read", idx |-> 0, calls |-> r.calls,
                                    raw |-> r.res, data |-> r.res, out |-> r.res, format |-> None,
                                    encoded |-> None, arm |-> "read"])
    /\ pc' = "done"
    /\ UNCHANGED <<entry, bufDecls, imgDecls, base, guess, uriArg, blobArg, blob, buffers, images, bi, ii>>

\* A loop body that drops the `?` and goes on whatever the value.
ContinuesAlways(r) == TRUE

\* An iterator that skips every other declaration.
SkipIndex(i) == i + 2

\* The `?` of a loop body: the loop goes on with an Ok value, the function
\* returns anything else.
Continues(r) == r.kind = "Ok"

\* The iterators of document.buffers() and document.images() advance by one.
NextIndex(i) == i + 1

\* One iteration of `for buffer in document.buffers()`.
BufferStep ==
    /\ pc = "buffers"
    /\ bi <= Len(bufDecls)
    /\ \E fr \in FetchOutcomes :
         \E it \in {BufferIteration(bufDecls[bi], bi, blob, base, fr)} :
             /\ blob' = it.slot
             /\ log' = Append(log, [op |-> "buffer", idx |-> bi, calls |-> it.calls,
                                    raw |-> it.raw, data |-> it.data, out |-> it.out, format |-> None,
                                    encoded |-> None, arm |-> "buffer"])
             /\ IF Continues(it.out)
                THEN /\ buffers' = Append(buffers, it.out.val)
                     /\ bi' = NextIndex(bi)
                     /\ UNCHANGED <<pc, result>>
                ELSE /\ buffers' = <<>>
                     /\ bi' = bi
                     /\ pc' = "done"
                     /\ result' = Returned(it.out.kind, it.out.err, <<>>, <<>>, <<>>)
    /\ UNCHANGED <<entry, bufDecls, imgDecls, base, guess, uriArg, blobArg, images, ii>>

\* import_images called once the first buffer is there.
BuffersFinishedEarly == bi > 1

\* The loop of import_buffers is over.
BuffersFinished == bi > Len(bufDecls)

\* import_buffers called on its own returns Ok(buffers).
BuffersReturn ==
    /\ pc = "buffers"
    /\ entry = "import_buffers"
    /\ BuffersFinished
    /\ pc' = "done"
    /\ result' = Returned("Ok", NoError, <<>>, buffers, <<>>)
    /\ UNCHANGED <<entry, bufDecls, imgDecls, base, guess, uriArg, blobArg, blob, buffers, images, bi, ii, log>>

\* import_impl: import_buffers returned Ok, import_images is called with its value.
ImagesCall ==
    /\ pc = "buffers"
    /\ entry = "import"
    /\ BuffersFinished
    /\ pc' = "images"
    /\ UNCHANGED <<entry, bufDecls, imgDecls, base, guess, uriArg, blobArg, blob, buffers, images, bi, ii, result, log>>

\* One iteration of `for image in document.images()`.
ImageStep ==
    /\ pc = "images"
    /\ ii <= Len(imgDecls)
    /\ \E fr \in FetchOutcomes :
         \E m \in {ImageFromSource(imgDecls[ii], buffers, base, guess, fr)} :
             /\ log' = Append(log, [op |-> "image", idx |-> ii, calls |-> m.calls,
                                    raw |-> m.res, data |-> m.res, out |-> m.res, format |-> m.format,
                                    encoded |-> m.encoded, arm |-> m.arm])
             /\ IF Continues(m.res)
                THEN /\ images' = Append(images, m.res.val)
                     /\ ii' = NextIndex(ii)
                     /\ UNCHANGED <<pc, result, buffers>>
                ELSE /\ images' = <<>>
                     /\ buffers' = IF entry = "import" THEN <<>> ELSE buffers
                     /\ ii' = ii
                     /\ pc' = "done"
                     /\ result' = Returned(m.res.kind, m.res.err, <<>>, <<>>, <<>>)
    /\ UNCHANGED <<entry, bufDecls, imgDecls, base, guess, uriArg, blobArg, blob, bi>>

ImagesFinished == ii > Len(imgDecls)

\* import_images returns Ok(images); import_impl returns the buffers with them.
ImagesReturn ==
    /\ pc = "images"
    /\ ImagesFinished
    /\ pc' = "done"
    /\ result' = Returned("Ok", NoError, <<>>,
                          IF entry = "import" THEN buffers ELSE <<>>, images)
    /\ UNCHANGED <<entry, bufDecls, imgDecls, base, guess, uriArg, blobArg, blob, buffers, images, bi, ii, log>>

----------------------------------------------------------------------------
(* Initial states: one per entry point *)

Decl(source, length) == [source |-> source, length |-> length]

DeclLengths == {0, MaxDeclLen - 1, MaxDeclLen}

BufferSources ==
    {Bin, Uri(RelativeUri), Uri(UndecodableUri), Uri(FileUri), Uri(HttpUri),
     Uri(DataUri(OctetStream, B64Raw)), Uri(DataUri(<<>>, B64Bad))}

Blobs == {None, Some(<<>>), Some(RawFile), Some(PngFile)}

\* import_buffers(document, blob, base, fetcher)
InitBuffers ==
    /\ InitCommon
    /\ entry = "import_buffers"
    /\ pc = "buffers"
    /\ bufDecls \in SeqsUpTo({Decl(s, n) : s \in BufferSources, n \in DeclLengths}, MaxBuffers)
    /\ blobArg \in Blobs
    /\ blob = blobArg
    /\ base \in Bases
    /\ guess = FALSE
    /\ uriArg = <<>>
    /\ imgDecls = <<>>
    /\ buffers = <<>>

PngName == <<"t",".","p","n","g">>
JpgName == <<"t",".","j","p","g">>
JpegName == <<"t",".","j","p","e","g">>
BinName == <<"t",".","b","i","n">>
FilePngName == <<"f","i","l","e",":","/","t",".","p","n","g">>

ImageMimes == {None, Some(ImagePng), Some(ImageJpeg), Some(ImageWebp)}

ImageSources ==
    {ImageUri(u, m) :
        u \in {PngName, JpgName, JpegName, BinName, FilePngName, HttpUri,
               UndecodableUri, DataUri(ImagePng, B64Png), DataUri(ImageWebp, B64Jpeg),
               DataUri(ImageJpeg, B64Bad), DataPrefix \o B64Png},
        m \in ImageMimes}
    \cup {ImageView(bf, r[1], r[2], m) :
        bf \in {0, 1},
        r \in {<<0, Len(PngFile)>>, <<1, Len(PngFile)>>, <<0, Len(JpegMagic)>>, <<Len(PngFile), 0>>},
        m \in {ImagePng, ImageJpeg, ImageWebp}}

FewImageSources ==
    {ImageUri(PngName, None), ImageView(0, 0, Len(PngFile), ImagePng),
     ImageView(1, 0, Len(JpegMagic), ImageWebp)}

BufferDatas == {<<>>, <<PngFile>>, <<PngFile, Pad(JpegFile)>>}

\* import_images(document, buffer_data, base, fetcher)
InitImages ==
    /\ InitCommon
    /\ entry = "import_images"
    /\ pc = "images"
    /\ imgDecls \in {<<s>> : s \in ImageSources} \cup SeqsUpTo(FewImageSources, MaxImages)
    /\ buffers \in BufferDatas
    /\ base \in Bases
    /\ guess \in BOOLEAN
    /\ uriArg = <<>>
    /\ bufDecls = <<>>
    /\ blobArg = None
    /\ blob = None

ImportDecls ==
    {Decl(Bin, MaxDeclLen), Decl(Uri(RelativeUri), 0), Decl(Uri(FileUri), MaxDeclLen),
     Decl(Uri(DataUri(OctetStream, B64Png)), 0)}

ImportImages ==
    {ImageView(0, 0, Len(PngFile), ImagePng), ImageView(1, 0, Len(PngFile), ImagePng),
     ImageUri(PngName, None)}

\* import_impl(Gltf {document, blob}, base, fetcher), reached from import and import_slice
Init ==
    /\ InitCommon
    /\ entry = "import"
    /\ pc = "buffers"
    /\ bufDecls \in SeqsUpTo(ImportDecls, MaxBuffers)
    /\ imgDecls \in SeqsUpTo(ImportImages, MaxImages)
    /\ blobArg \in {None, Some(PngFile)}
    /\ blob = blobArg
    /\ base \in Bases
    /\ guess = TRUE
    /\ uriArg = <<>>
    /\ buffers = <<>>

NextRead == ReadStep
NextBuffers == BufferStep \/ BuffersReturn
NextImages == ImageStep \/ ImagesReturn
Next == BufferStep \/ ImagesCall \/ ImageStep \/ ImagesReturn

SpecRead == InitRead /\ [][NextRead]_vars
SpecBuffers == InitBuffers /\ [][NextBuffers]_vars
SpecImages == InitImages /\ [][NextImages]_vars
Spec == Init /\ [][Next]_vars

----------------------------------------------------------------------------
(* Properties of import_buffers (SpecBuffers) *)

BufferEntries == {k \in DOMAIN log : log[k].op = "buffer"}
ImageEntries == {k \in DOMAIN log : log[k].op = "image"}

DeclOf(k) == bufDecls[log[k].idx]
IsBin(k) == DeclOf(k).source.kind = "Bin"

MissingBlob == Err(Error("MissingBlob"))

\* C1: in one import_buffers run the blob is consumed by at most one buffer
\* declaration: the first Bin buffer gets the supplied blob and leaves the slot
\* empty for good, every later Bin buffer fails with MissingBlob, and so does
\* a Bin buffer when no blob was supplied.
C1_BlobTakenOnce ==
    /\ \A k \in BufferEntries :
         IsBin(k) =>
           IF blobArg.some /\ ~\E j \in BufferEntries : j < k /\ IsBin(j)
           THEN log[k].raw = Ok(blobArg.val)
           ELSE log[k].raw = MissingBlob /\ log[k].out = MissingBlob
    /\ (\E k \in BufferEntries : IsBin(k)) => blob = None
    /\ Cardinality({k \in BufferEntries : IsBin(k) /\ log[k].raw.kind = "Ok"}) <= 1

\* Two Bin buffers and a blob: the first took it, the second failed.
C1_Witness ==
    /\ pc = "done"
    /\ blobArg.some
    /\ Len(log) = 2
    /\ IsBin(1) /\ IsBin(2)
    /\ log[1].out.kind = "Ok"
    /\ result.err.tag = "MissingBlob"

\* C2: a buffer declaring length N whose source resolves to M bytes (counted
\* before padding) fails with BufferLength {index, N, ..} iff M < N and
\* is accepted iff M >= N.
C2_LengthBeforePadding ==
    \A k \in BufferEntries :
      log[k].raw.kind = "Ok" =>
        /\ (Len(log[k].raw.val) < DeclOf(k).length) <=>
              /\ log[k].out.kind = "Err"
              /\ log[k].out.err.tag = "BufferLength"
              /\ log[k].out.err.buffer = log[k].idx - 1
              /\ log[k].out.err.expected = DeclOf(k).length
        /\ (Len(log[k].raw.val) >= DeclOf(k).length) <=> log[k].out.kind = "Ok"

\* The least multiple of 4 that is at least n.
CeilToFour(n) == ((n + 3) \div 4) * 4

\* C3: a source that resolves to L bytes gives a payload of ceil(L/4)*4
\* bytes, the first L of them the resolved bytes and the 0 to 3 others zero;
\* every payload of a successful import has a length that is a multiple of 4.
C3_Padding ==
    /\ \A k \in BufferEntries :
         log[k].raw.kind = "Ok" =>
           /\ log[k].data.kind = "Ok"
           /\ Len(log[k].data.val) = CeilToFour(Len(log[k].raw.val))
           /\ Len(log[k].data.val) - Len(log[k].raw.val) \in 0..3
           /\ SubSeq(log[k].data.val, 1, Len(log[k].raw.val)) = log[k].raw.val
           /\ \A j \in (Len(log[k].raw.val) + 1)..Len(log[k].data.val) : log[k].data.val[j] = 0
    /\ \A i \in DOMAIN buffers : Len(buffers[i]) % 4 = 0
    /\ \A i \in DOMAIN result.buffers : Len(result.buffers[i]) % 4 = 0

\* A blob of 3 bytes and fetched bytes that needed padding, both returned.
C3_Witness ==
    /\ result.kind = "Ok"
    /\ Len(result.buffers) = 2
    /\ \E k \in BufferEntries : IsBin(k) /\ Len(log[k].raw.val) % 4 = 3
    /\ \E k \in BufferEntries : log[k].calls # <<>> /\ Len(log[k].raw.val) % 4 = 1

----------------------------------------------------------------------------
(* Properties of import_impl (Spec) *)

ExternalReference == Err(Error("ExternalReferenceInSliceImport"))

SchemeOf(k) == Parse(DeclOf(k).source.uri).scheme

C5_BuffersBeforeImages ==
    /\ \A j \in BufferEntries : \A k \in ImageEntries : j < k
    /\ (ImageEntries # {} \/ pc = "images") =>
         /\ Cardinality(BufferEntries) = Len(bufDecls)
         /\ \A i \in DOMAIN bufDecls :
              log[i].op = "buffer" /\ log[i].idx = i /\ log[i].out.kind = "Ok"
         /\ pc = "images" => Len(buffers) = Len(bufDecls)
    /\ \A k \in ImageEntries :
         (log[k].arm = "view" /\ log[k].encoded.some) =>
            /\ imgDecls[log[k].idx].buffer + 1 \in DOMAIN bufDecls
            /\ log[k].encoded.val =
                 SubSeq(log[imgDecls[log[k].idx].buffer + 1].out.val,
                        imgDecls[log[k].idx].offset + 1,
                        imgDecls[log[k].idx].offset + imgDecls[log[k].idx].length)

\* Two buffers, the second one fetched, and an image decoded from a view of it.
C5_Witness ==
    /\ result.kind = "Ok"
    /\ Len(bufDecls) = 2
    /\ log[2].calls # <<>>
    /\ \E k \in ImageEntries : log[k].arm = "view" /\ imgDecls[log[k].idx].buffer = 1

\* C6: an error of a buffer or an image aborts the import: the import
\* returns that error and no payload, nothing is processed after the failing
\* declaration and the fetcher is not invoked again.
C6_ErrorsAbort ==
    /\ \A k \in DOMAIN log :
         log[k].out.kind = "Err" =>
            /\ k = Len(log)
            /\ pc = "done"
            /\ result = Returned("Err", log[k].out.err, <<>>, <<>>, <<>>)
    /\ result.kind = "Err" =>
         /\ log # <<>>
         /\ log[Len(log)].out.kind = "Err"
         /\ Cardinality(BufferEntries) + Cardinality(ImageEntries) = Len(log)
    /\ \A k \in BufferEntries : k = log[k].idx
    /\ \A k \in ImageEntries : k = Len(bufDecls) + log[k].idx

\* The fetch of the first image failed after the buffers were built, with an
\* image declaration left.
C6_Witness ==
    /\ result.kind = "Err"
    /\ bufDecls # <<>>
    /\ Len(imgDecls) = 2
    /\ Len(log) = Len(bufDecls) + 1
    /\ log[Len(log)].calls # <<>>

\* C8: a successful import returns one buffer payload per buffer declaration
\* and one image payload per image declaration, payload i made from
\* declaration i, each declaration processed once, in index order.
C8_IndexAligned ==
    result.kind = "Ok" =>
      /\ Len(result.buffers) = Len(bufDecls)
      /\ Len(result.images) = Len(imgDecls)
      /\ Len(log) = Len(bufDecls) + Len(imgDecls)
      /\ \A i \in DOMAIN bufDecls :
           /\ log[i].op = "buffer" /\ log[i].idx = i
           /\ log[i].out = Ok(result.buffers[i])
           /\ IF bufDecls[i].source.kind = "Bin"
              THEN log[i].raw = Ok(blobArg.val)
              ELSE log[i].calls = Read(base, bufDecls[i].source.uri, Ok(<<>>)).calls
      /\ \A i \in DOMAIN imgDecls :
           /\ log[Len(bufDecls) + i].op = "image" /\ log[Len(bufDecls) + i].idx = i
           /\ log[Len(bufDecls) + i].out = Ok(result.images[i])
           /\ IF imgDecls[i].kind = "View"
              THEN result.images[i].encoded =
                     SubSeq(result.buffers[imgDecls[i].buffer + 1], imgDecls[i].offset + 1,
                            imgDecls[i].offset + imgDecls[i].length)
              ELSE log[Len(bufDecls) + i].calls = Read(base, imgDecls[i].uri, Ok(<<>>)).calls

\* Two buffers and two images of different sources, all returned.
C8_Witness ==
    /\ result.kind = "Ok"
    /\ Len(bufDecls) = 2 /\ bufDecls[1] # bufDecls[2]
    /\ Len(imgDecls) = 2 /\ imgDecls[1] # imgDecls[2]

----------------------------------------------------------------------------
(* Properties of image::Data::from_source (SpecImages) *)

\* The extension of a URI that has one.
ClaimedExtension(uri) == IF Contains(uri, <<".">>) THEN ExtensionFormat(uri) ELSE None

\* The chain of C7: recognized MIME type, else extension, else sniffing.
ClaimedFormat(mime, uri, g, encoded) ==
    IF mime.some /\ MimeFormat(mime.val).some THEN MimeFormat(mime.val)
    ELSE IF ClaimedExtension(uri).some THEN ClaimedExtension(uri)
    ELSE GuessFormat(g, encoded)

\* C7: for an image of a non-inline URI whose bytes were fetched, the format
\* given to the decoder is the first success among the recognized MIME type,
\* the URI extension and content sniffing, and UnsupportedImageEncoding is
\* returned only if all three fail, for every combination of the three.
C7_FormatPriority ==
    \A k \in ImageEntries :
      (/\ imgDecls[log[k].idx].kind = "Uri"
       /\ Parse(imgDecls[log[k].idx].uri).scheme \in {"File", "Relative"}
       /\ log[k].encoded.some)
      => /\ log[k].format = ClaimedFormat(imgDecls[log[k].idx].mime, imgDecls[log[k].idx].uri,
                                          guess, log[k].encoded.val)
         /\ (log[k].out = Err(Error("UnsupportedImageEncoding")))
              <=> ~ClaimedFormat(imgDecls[log[k].idx].mime, imgDecls[log[k].idx].uri,
                                 guess, log[k].encoded.val).some

\* C10: a buffer view out of the range of the buffer payloads (buffer index
\* or offset + length) is surfaced as a returned error value, not as a panic.
C10_ViewOutOfRangeIsError ==
    \A k \in ImageEntries :
      (/\ imgDecls[log[k].idx].kind = "View"
       /\ ~(/\ imgDecls[log[k].idx].buffer < Len(buffers)
            /\ imgDecls[log[k].idx].offset + imgDecls[log[k].idx].length
                 <= Len(buffers[imgDecls[log[k].idx].buffer + 1])))
      => log[k].out.kind = "Err"

----------------------------------------------------------------------------
(* Properties of Scheme::parse and Scheme::read (SpecRead) *)

\* The split of C9: at the first marker, the payload running to the end.
ClaimedSplit(rest) ==
    IF Find(rest, Base64Marker) = 0 THEN Scheme("Data", None, rest)
    ELSE Scheme("Data", Some(SubSeq(rest, 1, Find(rest, Base64Marker) - 1)),
                SubSeq(rest, Find(rest, Base64Marker) + Len(Base64Marker), Len(rest)))

\* C9: a data: URI is split at the first ";base64,": the media type is the
\* text before it and the payload all the text after it, or the payload is
\* the whole remainder; Scheme::read returns the base64 decoding of that
\* payload whatever the media type, without a fetcher call.
C9_DataUriSplit ==
    (pc = "done" /\ StartsWith(uriArg, DataPrefix)) =>
      /\ Parse(uriArg) = ClaimedSplit(StripPrefix(uriArg, DataPrefix))
      /\ \A k \in DOMAIN log :
           /\ log[k].out = Base64Decode(ClaimedSplit(StripPrefix(uriArg, DataPrefix)).arg)
           /\ log[k].calls = <<>>

====
